---- MODULE Spec2Model ----
(***************************************************************************)
(* Model of tracee-ebpf/tracee/events_processor.go: the filter evaluator   *)
(* (shouldProcessEvent), the event dispatcher (processEvent), the one-time *)
(* tail-call pruner (removeSocketTail behind a sync.Once), updateProfile   *)
(* and CopyFileByPath.                                                     *)
(*                                                                         *)
(* Go strings are sequences of tokens: a token is one character, or one    *)
(* literal chunk of a format string ("/proc/", "/root", ...).  Numbers are *)
(* formatted digit by digit (Dec), so that key collisions are possible in  *)
(* the model exactly where they are possible in the program.               *)
(***************************************************************************)
EXTENDS Integers, Sequences, FiniteSets, TLC

\* ------------------------------------------------------------------------
\* Bounds of the model
\* ------------------------------------------------------------------------
MaxInode == 2        \* inode numbers 1..MaxInode
MaxTimes == 2        \* cap of a profile record's execution counter
BucketLimit == 2     \* capacity of one mount-namespace pid bucket
HashCacheSize == 1   \* capacity of the LRU hash cache
NCallers == 3        \* goroutines dispatching socket events concurrently
MaxIntList == 2      \* length of a return-value filter's accept and reject lists
MaxPatList == 2      \* length of an argument filter's accept list

\* ------------------------------------------------------------------------
\* Text
\* ------------------------------------------------------------------------
Digit(d) == CASE d = 0 -> "0" [] d = 1 -> "1" [] d = 2 -> "2" [] d = 3 -> "3"
              [] d = 4 -> "4" [] d = 5 -> "5" [] d = 6 -> "6" [] d = 7 -> "7"
              [] d = 8 -> "8" [] d = 9 -> "9"

RECURSIVE DecNat(_)
DecNat(n) == IF n < 10 THEN <<Digit(n)>> ELSE DecNat(n \div 10) \o <<Digit(n % 10)>>

\* the %d verb and strconv.Itoa
Dec(n) == IF n < 0 THEN <<"-">> \o DecNat(0 - n) ELSE DecNat(n)

\* strings.HasPrefix(s, prefix)
HasPrefix(s, prefix) == Len(s) >= Len(prefix) /\ SubSeq(s, 1, Len(prefix)) = prefix

RECURSIVE LastSlash(_, _)
LastSlash(p, i) == IF i = 0 THEN 0 ELSE IF p[i] = "/" THEN i ELSE LastSlash(p, i - 1)

RECURSIVE StripSlashes(_)
StripSlashes(p) == IF Len(p) > 0 /\ p[Len(p)] = "/" THEN StripSlashes(SubSeq(p, 1, Len(p) - 1)) ELSE p

\* filepath.Base(p), with p already known to be non-empty
Base(p) == LET q == StripSlashes(p)
           IN IF q = <<>> THEN <<"/">> ELSE SubSeq(q, LastSlash(q, Len(q)) + 1, Len(q))

\* ------------------------------------------------------------------------
\* Dynamically typed argument values (interface{})
\* ------------------------------------------------------------------------
Str(s) == [t |-> "string", v |-> s]
U32(n) == [t |-> "uint32", v |-> n]
U64(n) == [t |-> "uint64", v |-> n]
I64(n) == [t |-> "int64", v |-> n]

\* the type assertion args[name].(type): ok iff present and of that type
HasTyped(a, name, type) == name \in DOMAIN a /\ a[name].t = type

\* fmt.Sprint(argVal)
Sprint(val) == IF val.t = "string" THEN val.v ELSE Dec(val.v)

\* the argument map with one more entry (args[name] = val)
Put(f, k, val) == [x \in DOMAIN f \cup {k} |-> IF x = k THEN val ELSE f[x]]

\* ------------------------------------------------------------------------
\* Event identifiers and input domains
\* ------------------------------------------------------------------------
VfsWriteEventID == "vfs_write"
VfsWritevEventID == "vfs_writev"
SchedProcessExecEventID == "sched_process_exec"
SocketEventID == "socket"
OtherEventID == "close"

MntIDs == {1, 2}
HostPids == {1, 2}
Ctimes == {1, 2}
Inodes == 1..MaxInode
Devs == {8}

AbsPaths == { <<"/", "a">>, <<"/", "d", "/", "a">> }
RelPaths == { <<>>, <<"m">> }

\* getFileHash returns a bare string: a hash, or the empty string when it
\* could not read the file (it has no error to return)
HashOutputs == { <<"x">>, <<>> }


Absent == [t |-> "absent", v |-> 0]
MkArgs(names, r) == [n \in {x \in names : r[x].t # "absent"} |-> r[n]]

\* write arguments: well formed, with a path that is not absolute, malformed
WriteArgRecs ==
    [pathname : {Str(p) : p \in AbsPaths}, dev : {U32(d) : d \in Devs},
     inode : {U64(i) : i \in Inodes}]
    \cup [pathname : {Str(p) : p \in RelPaths}, dev : {U32(8), Absent}, inode : {U64(1)}]
    \cup [pathname : {U32(1), Absent}, dev : {U32(8)}, inode : {U64(1)}]
    \cup [pathname : {Str(<<"/", "a">>)}, dev : {U64(8), Absent}, inode : {U64(1)}]
    \cup [pathname : {Str(<<"/", "a">>)}, dev : {U32(8)}, inode : {U32(1), Absent}]
WriteArgs == { MkArgs({"pathname", "dev", "inode"}, r) : r \in WriteArgRecs }

\* exec arguments: well formed, with a path that is not absolute, malformed
ExecArgRecs ==
    [pathname : {Str(p) : p \in RelPaths}, ctime : {I64(1), Absent}]
    \cup [pathname : {U32(1), Absent}, ctime : {I64(1)}]
    \cup [pathname : {Str(<<"/", "a">>)}, ctime : {U64(1), Absent}]
ExecArgsGood == { MkArgs({"pathname", "ctime"}, r) :
                    r \in [pathname : {Str(<<"/", "a">>)}, ctime : {I64(c) : c \in Ctimes}] }
ExecArgsOdd == { MkArgs({"pathname", "ctime"}, r) : r \in ExecArgRecs }

\* the descriptors the decoder delivers with the arguments
MetaOf(name) == [Name |-> name, Type |-> IF name = "pathname" THEN "const char*" ELSE "int"]
RECURSIVE MetasOf(_)
MetasOf(names) == IF names = {} THEN <<>>
                  ELSE LET n == CHOOSE x \in names : TRUE
                       IN <<MetaOf(n)>> \o MetasOf(names \ {n})

\* ------------------------------------------------------------------------
\* State
\* ------------------------------------------------------------------------
VARIABLES
    config,          \* t.config.Capture.{FileWrite,Exec,Profile}, t.config.Output.ExecHash
    writtenFiles,    \* t.writtenFiles : key -> path
    pidsInMntns,     \* t.pidsInMntns : mount namespace -> bucket of host pids
    capturedFiles,   \* t.capturedFiles : key -> ctime
    fileHashes,      \* t.fileHashes : LRU cache, most recently used first
    profiledFiles,   \* t.profiledFiles : key -> profilerInfo
    ctx,             \* the context of the event in hand (processEvent's *context)
    args,            \* its argument map
    argMetas,        \* its argument descriptors
    pc,              \* "idle": waiting for the decoder, "delivered": event in hand
    err,             \* what the last processEvent returned
    ev,              \* the event in hand as the decoder delivered it
    again,           \* how the event in hand repeats the previously processed one
    io,              \* what the last processEvent did to the outside world
    onceDone,        \* removeSocketTailOnce: its done flag
    onceM,           \* removeSocketTailOnce: holder of its mutex, 0 when free
    cpc,             \* socket-event callers of processEvent: position of each
    cerr,            \* what processEvent returned to each of them
    tail,            \* removeSocketTail: its calls on the kernel map, and the answers
    fctx, fargs, ffilter, fresult   \* the filter evaluator's inputs and verdict

dispVars == <<config, writtenFiles, pidsInMntns, capturedFiles, fileHashes, profiledFiles,
              ctx, args, argMetas, pc, err, ev, again, io>>
onceVars == <<onceDone, onceM, cpc, cerr, tail>>
filtVars == <<fctx, fargs, ffilter, fresult>>
vars == <<dispVars, onceVars, filtVars>>
indexVars == <<writtenFiles, pidsInMntns, capturedFiles, fileHashes, profiledFiles>>

NoErr == "nil"
\* via: the candidate pid tried, first: that candidate could reach the source,
\* later: a later candidate of the bucket could reach the source, copy:
\* CopyFileByPath was not called / succeeded / failed, hashed: getFileHash was
\* called, hash: what it returned
NoIO == [via |-> 0, first |-> FALSE, later |-> FALSE, mkdir |-> FALSE, copy |-> "none",
         hashed |-> FALSE, hash |-> <<>>]

\* ------------------------------------------------------------------------
\* The written-file index (processEvent, write events)
\* ------------------------------------------------------------------------
\* fmt.Sprintf("%d/write.dev-%d.inode-%d", ctx.MntID, dev, inode)
WriteFileName(mnt, dev, inode) ==
    Dec(mnt) \o <<"/write.dev-">> \o Dec(dev) \o <<".inode-">> \o Dec(inode)

\* faulty variant: the "already indexed" test turned around: an unknown file is skipped
WriteCaseSkipsUnknown(cfg, c, a, wf) ==
    IF ~cfg.FileWrite THEN [err |-> NoErr, writtenFiles |-> wf]
    ELSE IF ~HasTyped(a, "pathname", "string")
    THEN [err |-> "error parsing vfs_write args", writtenFiles |-> wf]
    ELSE IF a["pathname"].v = <<>> \/ a["pathname"].v[1] # "/"
    THEN [err |-> NoErr, writtenFiles |-> wf]
    ELSE IF ~HasTyped(a, "dev", "uint32")
    THEN [err |-> "error parsing vfs_write args", writtenFiles |-> wf]
    ELSE IF ~HasTyped(a, "inode", "uint64")
    THEN [err |-> "error parsing vfs_write args", writtenFiles |-> wf]
    ELSE LET filePath == a["pathname"].v
             fileName == WriteFileName(c.MntID, a["dev"].v, a["inode"].v)
         IN IF fileName \notin DOMAIN wf \/ wf[fileName] = filePath
            THEN [err |-> NoErr, writtenFiles |-> wf]
            ELSE [err |-> NoErr, writtenFiles |-> Put(wf, fileName, filePath)]

\* faulty variant: an entry, once written, is never overwritten
WriteCaseKeepsFirst(cfg, c, a, wf) ==
    IF ~cfg.FileWrite THEN [err |-> NoErr, writtenFiles |-> wf]
    ELSE IF ~HasTyped(a, "pathname", "string")
    THEN [err |-> "error parsing vfs_write args", writtenFiles |-> wf]
    ELSE IF a["pathname"].v = <<>> \/ a["pathname"].v[1] # "/"
    THEN [err |-> NoErr, writtenFiles |-> wf]
    ELSE IF ~HasTyped(a, "dev", "uint32")
    THEN [err |-> "error parsing vfs_write args", writtenFiles |-> wf]
    ELSE IF ~HasTyped(a, "inode", "uint64")
    THEN [err |-> "error parsing vfs_write args", writtenFiles |-> wf]
    ELSE LET filePath == a["pathname"].v
             fileName == WriteFileName(c.MntID, a["dev"].v, a["inode"].v)
         IN IF fileName \in DOMAIN wf
            THEN [err |-> NoErr, writtenFiles |-> wf]
            ELSE [err |-> NoErr, writtenFiles |-> Put(wf, fileName, filePath)]

\* faulty variant: all three arguments are parsed before the path is looked at
WriteCaseParsesFirst(cfg, c, a, wf) ==
    IF ~cfg.FileWrite THEN [err |-> NoErr, writtenFiles |-> wf]
    ELSE IF ~HasTyped(a, "pathname", "string") \/ ~HasTyped(a, "dev", "uint32")
            \/ ~HasTyped(a, "inode", "uint64")
    THEN [err |-> "error parsing vfs_write args", writtenFiles |-> wf]
    ELSE IF a["pathname"].v = <<>> \/ a["pathname"].v[1] # "/"
    THEN [err |-> NoErr, writtenFiles |-> wf]
    ELSE LET filePath == a["pathname"].v
             fileName == WriteFileName(c.MntID, a["dev"].v, a["inode"].v)
         IN IF fileName \in DOMAIN wf /\ wf[fileName] = filePath
            THEN [err |-> NoErr, writtenFiles |-> wf]
            ELSE [err |-> NoErr, writtenFiles |-> Put(wf, fileName, filePath)]

\* case VfsWriteEventID, VfsWritevEventID: the returned error and the index afterwards
WriteCase(cfg, c, a, wf) ==
    IF ~cfg.FileWrite THEN [err |-> NoErr, writtenFiles |-> wf]
    ELSE IF ~HasTyped(a, "pathname", "string")
    THEN [err |-> "error parsing vfs_write args", writtenFiles |-> wf]
    ELSE IF a["pathname"].v = <<>> \/ a["pathname"].v[1] # "/"
    THEN [err |-> NoErr, writtenFiles |-> wf]
    ELSE IF ~HasTyped(a, "dev", "uint32")
    THEN [err |-> "error parsing vfs_write args", writtenFiles |-> wf]
    ELSE IF ~HasTyped(a, "inode", "uint64")
    THEN [err |-> "error parsing vfs_write args", writtenFiles |-> wf]
    ELSE LET filePath == a["pathname"].v
             fileName == WriteFileName(c.MntID, a["dev"].v, a["inode"].v)
         IN IF fileName \in DOMAIN wf /\ wf[fileName] = filePath
            THEN [err |-> NoErr, writtenFiles |-> wf]
            ELSE [err |-> NoErr, writtenFiles |-> Put(wf, fileName, filePath)]

ProcessWrite ==
    /\ pc = "delivered"
    /\ ctx.EventID \in {VfsWriteEventID, VfsWritevEventID}
    /\ LET r == WriteCase(config, ctx, args, writtenFiles)
       IN /\ writtenFiles' = r.writtenFiles
          /\ err' = r.err
    /\ pc' = "idle"
    /\ io' = NoIO
    /\ UNCHANGED <<config, pidsInMntns, capturedFiles, fileHashes, profiledFiles,
                   ctx, args, argMetas, ev, again>>
    /\ UNCHANGED <<onceVars, filtVars>>

\* an event type with no case in the switch
ProcessOther ==
    /\ pc = "delivered"
    /\ ctx.EventID \notin {VfsWriteEventID, VfsWritevEventID, SchedProcessExecEventID, SocketEventID}
    /\ err' = NoErr
    /\ pc' = "idle"
    /\ io' = NoIO
    /\ UNCHANGED <<config, indexVars, ctx, args, argMetas, ev, again>>
    /\ UNCHANGED <<onceVars, filtVars>>

\* ------------------------------------------------------------------------
\* The mount-namespace pid index (bucketed, bounded)
\* ------------------------------------------------------------------------
GetBucket(b, mnt) == b[mnt]

\* conditional insertion: dropped when the bucket is full
AddBucketItem(b, mnt, pid) ==
    IF Len(b[mnt]) < BucketLimit THEN [b EXCEPT ![mnt] = Append(@, pid)] ELSE b

\* forced insertion: always inserted; in a full bucket it takes the place of
\* the item at position evict (which one is the bucket's eviction policy)
ForceAddBucketItem(b, mnt, pid, evict) ==
    IF Len(b[mnt]) < BucketLimit THEN [b EXCEPT ![mnt] = Append(@, pid)]
    ELSE [b EXCEPT ![mnt][evict] = pid]

\* ------------------------------------------------------------------------
\* The hash cache (LRU, most recently used first)
\* ------------------------------------------------------------------------
RECURSIVE LruIndex(_, _, _)
LruIndex(fh, key, i) == IF i > Len(fh) THEN 0
                        ELSE IF fh[i].key = key THEN i ELSE LruIndex(fh, key, i + 1)

LruRemove(fh, i) == SubSeq(fh, 1, i - 1) \o SubSeq(fh, i + 1, Len(fh))

\* t.fileHashes.Get(key): the entry if any; a hit becomes the most recent
LruGet(fh, key) ==
    LET i == LruIndex(fh, key, 1)
    IN IF i = 0 THEN [ok |-> FALSE, val |-> [LastCtime |-> 0, Hash |-> <<>>], cache |-> fh]
       ELSE [ok |-> TRUE, val |-> fh[i].val, cache |-> <<fh[i]>> \o LruRemove(fh, i)]

\* t.fileHashes.Add(key, val): replaces or inserts, evicting the oldest
LruAdd(fh, key, val) ==
    LET i == LruIndex(fh, key, 1)
        e == [key |-> key, val |-> val]
    IN IF i # 0 THEN <<e>> \o LruRemove(fh, i)
       ELSE IF Len(fh) >= HashCacheSize THEN <<e>> \o SubSeq(fh, 1, HashCacheSize - 1)
       ELSE <<e>> \o fh

\* ------------------------------------------------------------------------
\* Exec capture, hash cache, profile (processEvent, exec events)
\* ------------------------------------------------------------------------
\* fmt.Sprintf("/proc/%s/root%s", strconv.Itoa(int(pid)), filePath)
SourceFilePath(pid, filePath) == <<"/proc/">> \o Dec(pid) \o <<"/root">> \o filePath

\* fmt.Sprintf("%d:%s", ctx.MntID, sourceFilePath)
CapturedFileID(mnt, sourceFilePath) == Dec(mnt) \o <<":">> \o sourceFilePath

\* filepath.Join(t.config.Capture.OutputPath, strconv.Itoa(int(ctx.MntID)))
DestinationDirPath(mnt) == <<"out", "/">> \o Dec(mnt)

\* the key handed to updateProfile
ProfileKey(mnt, filePath, ctime) ==
    DestinationDirPath(mnt) \o <<"/", "exec.">> \o Base(filePath) \o <<":">> \o Dec(ctime)

\* faulty variant: a bump also takes the timestamp of the bumping event
updateProfileLastTs(pf, sourceFilePath, executionTs) ==
    IF sourceFilePath \notin DOMAIN pf
    THEN Put(pf, sourceFilePath, [Times |-> 1, FirstExecutionTs |-> executionTs])
    ELSE [pf EXCEPT ![sourceFilePath].Times = @ + 1,
                    ![sourceFilePath].FirstExecutionTs = executionTs]

updateProfile(pf, sourceFilePath, executionTs) ==
    IF sourceFilePath \notin DOMAIN pf
    THEN Put(pf, sourceFilePath, [Times |-> 1, FirstExecutionTs |-> executionTs])
    ELSE [pf EXCEPT ![sourceFilePath].Times = @ + 1]

\* CopyFileByPath(src, dst): srcOK says that os.Stat(src) succeeds, fault
\* names the one later step of this call that the file system fails
CopyFileByPath(srcOK, fault) ==
    IF ~srcOK THEN "stat: no such file or directory"
    ELSE IF fault = "notregular" THEN "is not a regular file"
    ELSE IF fault = "open" THEN "open failed"
    ELSE IF fault = "create" THEN "create failed"
    ELSE IF fault = "copy" THEN "copy failed"
    ELSE NoErr

\* the errors CopyFileByPath returns
CopyErrors == {"stat: no such file or directory", "is not a regular file", "open failed",
               "create failed", "copy failed"}

\* (a failing os.Open or io.Copy is returned exactly like a failing os.Create)
Faults == {"none", "mkdir", "notregular", "create"}

\* faulty variant: the file is marked as captured before it is copied
CaptureStepMarksFirst(cfg, c, filePath, sourceFileCtime, pid, cf, pf, env) ==
    LET capturedFileID == CapturedFileID(c.MntID, SourceFilePath(pid, filePath))
        pf1 == IF cfg.Profile
               THEN updateProfile(pf, ProfileKey(c.MntID, filePath, sourceFileCtime), c.Ts)
               ELSE pf
        copyErr == CopyFileByPath(pid \in env.resolves, env.fault)
        cf1 == Put(cf, capturedFileID, sourceFileCtime)
    IN IF env.fault = "mkdir"
       THEN [err |-> "mkdir failed", capturedFiles |-> cf, profiledFiles |-> pf,
             mkdir |-> FALSE, copy |-> "none"]
       ELSE IF capturedFileID \in DOMAIN cf /\ cf[capturedFileID] = sourceFileCtime
       THEN [err |-> NoErr, capturedFiles |-> cf, profiledFiles |-> pf1,
             mkdir |-> TRUE, copy |-> "none"]
       ELSE IF copyErr # NoErr
       THEN [err |-> copyErr, capturedFiles |-> cf1, profiledFiles |-> pf1,
             mkdir |-> TRUE, copy |-> "fail"]
       ELSE [err |-> NoErr, capturedFiles |-> cf1,
             profiledFiles |-> pf1, mkdir |-> TRUE, copy |-> "ok"]

\* if t.config.Capture.Exec { ... }: one candidate pid
CaptureStep(cfg, c, filePath, sourceFileCtime, pid, cf, pf, env) ==
    LET capturedFileID == CapturedFileID(c.MntID, SourceFilePath(pid, filePath))
        pf1 == IF cfg.Profile
               THEN updateProfile(pf, ProfileKey(c.MntID, filePath, sourceFileCtime), c.Ts)
               ELSE pf
        copyErr == CopyFileByPath(pid \in env.resolves, env.fault)
    IN IF env.fault = "mkdir"
       THEN [err |-> "mkdir failed", capturedFiles |-> cf, profiledFiles |-> pf,
             mkdir |-> FALSE, copy |-> "none"]
       ELSE IF capturedFileID \in DOMAIN cf /\ cf[capturedFileID] = sourceFileCtime
       THEN [err |-> NoErr, capturedFiles |-> cf, profiledFiles |-> pf1,
             mkdir |-> TRUE, copy |-> "none"]
       ELSE IF copyErr # NoErr
       THEN [err |-> copyErr, capturedFiles |-> cf, profiledFiles |-> pf1,
             mkdir |-> TRUE, copy |-> "fail"]
       ELSE [err |-> NoErr, capturedFiles |-> Put(cf, capturedFileID, sourceFileCtime),
             profiledFiles |-> pf1, mkdir |-> TRUE, copy |-> "ok"]

HashMeta == [Name |-> "sha256", Type |-> "const char*"]

\* faulty variant: a hash step that trusts a cache entry whatever its stored ctime
HashStepIgnoresCtime(c, a, metas, capturedFileID, sourceFileCtime, fh, env) ==
    LET got == LruGet(fh, capturedFileID)
        hit == got.ok
        currentHash == IF hit THEN got.val.Hash ELSE env.hash
        fh1 == IF hit THEN got.cache
               ELSE LruAdd(got.cache, capturedFileID,
                           [LastCtime |-> sourceFileCtime, Hash |-> currentHash])
    IN [args |-> Put(a, "sha256", Str(currentHash)),
        argMetas |-> Append(metas, HashMeta),
        Argnum |-> c.Argnum + 1,
        fileHashes |-> fh1,
        hashed |-> ~hit,
        hash |-> IF hit THEN <<>> ELSE env.hash]

\* faulty variant: a hash step that forgets to count the argument it adds
HashStepKeepsArgnum(c, a, metas, capturedFileID, sourceFileCtime, fh, env) ==
    LET got == LruGet(fh, capturedFileID)
        hit == got.ok /\ got.val.LastCtime = sourceFileCtime
        currentHash == IF hit THEN got.val.Hash ELSE env.hash
        fh1 == IF hit THEN got.cache
               ELSE LruAdd(got.cache, capturedFileID,
                           [LastCtime |-> sourceFileCtime, Hash |-> currentHash])
    IN [args |-> Put(a, "sha256", Str(currentHash)),
        argMetas |-> Append(metas, HashMeta),
        Argnum |-> c.Argnum,
        fileHashes |-> fh1,
        hashed |-> ~hit,
        hash |-> IF hit THEN <<>> ELSE env.hash]

\* if t.config.Output.ExecHash { ... }: one candidate pid
HashStep(c, a, metas, capturedFileID, sourceFileCtime, fh, env) ==
    LET got == LruGet(fh, capturedFileID)
        hit == got.ok /\ got.val.LastCtime = sourceFileCtime
        currentHash == IF hit THEN got.val.Hash ELSE env.hash
        fh1 == IF hit THEN got.cache
               ELSE LruAdd(got.cache, capturedFileID,
                           [LastCtime |-> sourceFileCtime, Hash |-> currentHash])
    IN [args |-> Put(a, "sha256", Str(currentHash)),
        argMetas |-> Append(metas, HashMeta),
        Argnum |-> c.Argnum + 1,
        fileHashes |-> fh1,
        hashed |-> ~hit,
        hash |-> IF hit THEN <<>> ELSE env.hash]

\* getFileHash(sourceFilePath) through the candidate pid: a source that
\* cannot be reached cannot be hashed, and getFileHash has one result, a
\* string, which is empty when the file could not be read
HashEnv(env, pid) == [env EXCEPT !.hash = IF pid \in env.resolves THEN @ ELSE <<>>]

\* the body of "for _, pid := range pids", run for the candidate pid: every
\* path through it ends in a return or in the break of its last line
ExecCandidate(cfg, c, a, metas, pid, cf, fh, pf, env) ==
    LET filePath == a["pathname"].v
        keep == [err |-> NoErr, args |-> a, argMetas |-> metas, Argnum |-> c.Argnum,
                 capturedFiles |-> cf, fileHashes |-> fh, profiledFiles |-> pf,
                 io |-> [NoIO EXCEPT !.via = pid]]
    IN IF ~HasTyped(a, "ctime", "int64")
       THEN [keep EXCEPT !.err = "error parsing sched_process_exec args: ctime"]
       ELSE
       LET sourceFileCtime == a["ctime"].v
           capturedFileID == CapturedFileID(c.MntID, SourceFilePath(pid, filePath))
           cap == IF cfg.Exec
                  THEN CaptureStep(cfg, c, filePath, sourceFileCtime, pid, cf, pf, env)
                  ELSE [err |-> NoErr, capturedFiles |-> cf, profiledFiles |-> pf,
                        mkdir |-> FALSE, copy |-> "none"]
           afterCap == [keep EXCEPT !.err = cap.err,
                                    !.capturedFiles = cap.capturedFiles,
                                    !.profiledFiles = cap.profiledFiles,
                                    !.io.mkdir = cap.mkdir,
                                    !.io.copy = cap.copy]
       IN IF cap.err # NoErr THEN afterCap
          ELSE IF ~cfg.ExecHash THEN afterCap
          ELSE LET h == HashStep(c, a, metas, capturedFileID, sourceFileCtime, fh,
                                 HashEnv(env, pid))
               IN [afterCap EXCEPT !.args = h.args,
                                   !.argMetas = h.argMetas,
                                   !.Argnum = h.Argnum,
                                   !.fileHashes = h.fileHashes,
                                   !.io.hashed = h.hashed,
                                   !.io.hash = h.hash]

\* faulty variant: the exec case without its test of the path's form
ExecCaseAnyPath(cfg, c, a, metas, pids, cf, fh, pf, env) ==
    LET keep == [err |-> NoErr, args |-> a, argMetas |-> metas, Argnum |-> c.Argnum,
                 capturedFiles |-> cf, fileHashes |-> fh, profiledFiles |-> pf,
                 io |-> NoIO]
    IN IF ~(cfg.Exec \/ cfg.ExecHash) THEN keep
       ELSE IF ~HasTyped(a, "pathname", "string")
       THEN [keep EXCEPT !.err = "error parsing sched_process_exec args"]
       ELSE IF pids = <<>> THEN keep
       ELSE LET r == ExecCandidate(cfg, c, a, metas, pids[1], cf, fh, pf, env)
            IN [r EXCEPT !.io.first = pids[1] \in env.resolves,
                         !.io.later = \E i \in 2..Len(pids) : pids[i] \in env.resolves]

\* case SchedProcessExecEventID, after the pid index update; pids is the
\* bucket of the event's mount namespace
ExecCase(cfg, c, a, metas, pids, cf, fh, pf, env) ==
    LET keep == [err |-> NoErr, args |-> a, argMetas |-> metas, Argnum |-> c.Argnum,
                 capturedFiles |-> cf, fileHashes |-> fh, profiledFiles |-> pf,
                 io |-> NoIO]
    IN IF ~(cfg.Exec \/ cfg.ExecHash) THEN keep
       ELSE IF ~HasTyped(a, "pathname", "string")
       THEN [keep EXCEPT !.err = "error parsing sched_process_exec args"]
       ELSE IF a["pathname"].v = <<>> \/ a["pathname"].v[1] # "/" THEN keep
       ELSE IF pids = <<>> THEN keep
       ELSE LET r == ExecCandidate(cfg, c, a, metas, pids[1], cf, fh, pf, env)
            IN [r EXCEPT !.io.first = pids[1] \in env.resolves,
                         !.io.later = \E i \in 2..Len(pids) : pids[i] \in env.resolves]

\* the outside world during one processEvent: the host pids through whose
\* /proc root the source file can be reached, the file system's one fault,
\* and what getFileHash returns (only the part a processEvent under cfg can
\* depend on)
EnvsFor(cfg) == [resolves : SUBSET HostPids,
                 fault : IF cfg.Exec THEN Faults ELSE {"none"},
                 hash : IF cfg.ExecHash THEN HashOutputs ELSE {<<>>}]

\* the positions a forced insertion of this event can evict
EvictsFor(c, b) == IF c.Pid = 1 /\ Len(b[c.MntID]) >= BucketLimit THEN 1..BucketLimit ELSE {1}

\* faulty variant: the pid index is updated only when a toggle is on
ProcessExecIndexesLate(env, evict) ==
    /\ pc = "delivered"
    /\ ctx.EventID = SchedProcessExecEventID
    /\ LET b == IF ~(config.Exec \/ config.ExecHash) THEN pidsInMntns
                ELSE IF ctx.Pid = 1
                THEN ForceAddBucketItem(pidsInMntns, ctx.MntID, ctx.HostPid, evict)
                ELSE AddBucketItem(pidsInMntns, ctx.MntID, ctx.HostPid)
           r == ExecCase(config, ctx, args, argMetas, GetBucket(b, ctx.MntID),
                         capturedFiles, fileHashes, profiledFiles, env)
       IN /\ pidsInMntns' = b
          /\ capturedFiles' = r.capturedFiles
          /\ fileHashes' = r.fileHashes
          /\ profiledFiles' = r.profiledFiles
          /\ args' = r.args
          /\ argMetas' = r.argMetas
          /\ ctx' = [ctx EXCEPT !.Argnum = r.Argnum]
          /\ err' = r.err
          /\ io' = r.io
    /\ pc' = "idle"
    /\ UNCHANGED <<config, writtenFiles, ev, again>>
    /\ UNCHANGED <<onceVars, filtVars>>

ProcessExec(env, evict) ==
    /\ pc = "delivered"
    /\ ctx.EventID = SchedProcessExecEventID
    /\ LET b == IF ctx.Pid = 1
                THEN ForceAddBucketItem(pidsInMntns, ctx.MntID, ctx.HostPid, evict)
                ELSE AddBucketItem(pidsInMntns, ctx.MntID, ctx.HostPid)
           r == ExecCase(config, ctx, args, argMetas, GetBucket(b, ctx.MntID),
                         capturedFiles, fileHashes, profiledFiles, env)
       IN /\ pidsInMntns' = b
          /\ capturedFiles' = r.capturedFiles
          /\ fileHashes' = r.fileHashes
          /\ profiledFiles' = r.profiledFiles
          /\ args' = r.args
          /\ argMetas' = r.argMetas
          /\ ctx' = [ctx EXCEPT !.Argnum = r.Argnum]
          /\ err' = r.err
          /\ io' = r.io
    /\ pc' = "idle"
    /\ UNCHANGED <<config, writtenFiles, ev, again>>
    /\ UNCHANGED <<onceVars, filtVars>>

\* ------------------------------------------------------------------------
\* The tail-call pruner: removeSocketTailOnce.Do(t.removeSocketTail)
\* ------------------------------------------------------------------------
NoTail == [runs |-> 0, deletes |-> 0, handled |-> 0,
           getMap |-> "none", getValue |-> "none", deleteKey |-> "none"]

Answer(ok) == IF ok THEN "ok" ELSE "fail"

At(c, where) == cpc[c] = where
Goto(c, where) == cpc' = [cpc EXCEPT ![c] = where]

\* a caller enters processEvent with a socket event: case SocketEventID
CallSocket(c) ==
    /\ At(c, "idle")
    /\ Goto(c, "load")
    /\ UNCHANGED <<onceDone, onceM, cerr, tail, dispVars, filtVars>>

\* Once.Do: the unlocked look at the done flag
OnceLoad(c) ==
    /\ At(c, "load")
    /\ IF onceDone
       THEN /\ Goto(c, "done")
            /\ cerr' = [cerr EXCEPT ![c] = NoErr]
       ELSE /\ Goto(c, "lock")
            /\ UNCHANGED cerr
    /\ UNCHANGED <<onceDone, onceM, tail, dispVars, filtVars>>

\* Once.doSlow: o.m.Lock()
OnceLock(c) ==
    /\ At(c, "lock")
    /\ onceM = 0
    /\ onceM' = c
    /\ Goto(c, "check")
    /\ UNCHANGED <<onceDone, cerr, tail, dispVars, filtVars>>

\* faulty variant: doSlow without its second look at the done flag
OnceCheckNoRecheck(c) ==
    /\ At(c, "check")
    /\ Goto(c, "getMap")
    /\ tail' = [tail EXCEPT !.runs = @ + 1]
    /\ UNCHANGED <<onceDone, onceM, cerr, dispVars, filtVars>>

\* Once.doSlow: the second look at the done flag, under the mutex; the
\* winner enters removeSocketTail
OnceCheck(c) ==
    /\ At(c, "check")
    /\ IF onceDone
       THEN /\ Goto(c, "unlock")
            /\ UNCHANGED tail
       ELSE /\ Goto(c, "getMap")
            /\ tail' = [tail EXCEPT !.runs = @ + 1]
    /\ UNCHANGED <<onceDone, onceM, cerr, dispVars, filtVars>>

\* bpfMap, err := t.bpfModule.GetMap("sys_exit_tails")
GetMap(c, ok) ==
    /\ At(c, "getMap")
    /\ tail' = [tail EXCEPT !.getMap = Answer(ok)]
    /\ Goto(c, IF ok THEN "getValue" ELSE "store")
    /\ UNCHANGED <<onceDone, onceM, cerr, dispVars, filtVars>>

\* _, err = bpfMap.GetValue(&eU32)
GetValue(c, ok) ==
    /\ At(c, "getValue")
    /\ tail' = [tail EXCEPT !.getValue = Answer(ok)]
    /\ Goto(c, IF ok THEN "deleteKey" ELSE "store")
    /\ UNCHANGED <<onceDone, onceM, cerr, dispVars, filtVars>>

\* err = bpfMap.DeleteKey(&eU32)
DeleteKey(c, ok) ==
    /\ At(c, "deleteKey")
    /\ tail' = [tail EXCEPT !.deletes = @ + 1, !.deleteKey = Answer(ok)]
    /\ Goto(c, IF ok THEN "store" ELSE "handleError")
    /\ UNCHANGED <<onceDone, onceM, cerr, dispVars, filtVars>>

\* t.handleError(err)
HandleError(c) ==
    /\ At(c, "handleError")
    /\ tail' = [tail EXCEPT !.handled = @ + 1]
    /\ Goto(c, "store")
    /\ UNCHANGED <<onceDone, onceM, cerr, dispVars, filtVars>>

\* Once.doSlow: the deferred atomic.StoreUint32(&o.done, 1)
OnceStore(c) ==
    /\ At(c, "store")
    /\ onceDone' = TRUE
    /\ Goto(c, "unlock")
    /\ UNCHANGED <<onceM, cerr, tail, dispVars, filtVars>>

\* Once.doSlow: the deferred o.m.Unlock(); processEvent then returns nil
OnceUnlock(c) ==
    /\ At(c, "unlock")
    /\ onceM' = 0
    /\ Goto(c, "done")
    /\ cerr' = [cerr EXCEPT ![c] = NoErr]
    /\ UNCHANGED <<onceDone, tail, dispVars, filtVars>>

\* ------------------------------------------------------------------------
\* The filter evaluator (shouldProcessEvent)
\* ------------------------------------------------------------------------
\* the "unset" values of a return-value filter's thresholds (the largest and
\* the smallest return value, scaled to the model's small integers)
GreaterNotSetInt == 9
LessNotSetInt == 0 - 9

\* for _, f := range filter.Equal { if retVal == f { ... } }: is retVal in the list
RECURSIVE IntIn(_, _, _)
IntIn(list, retVal, i) ==
    IF i > Len(list) THEN FALSE
    ELSE IF retVal = list[i] THEN TRUE ELSE IntIn(list, retVal, i + 1)

\* faulty variant: the thresholds compared without looking at the "unset" values
RetFilterRejectsNoSentinel(filter, retVal) ==
    \/ (~IntIn(filter.Equal, retVal, 1) /\ Len(filter.Equal) > 0)
    \/ IntIn(filter.NotEqual, retVal, 1)
    \/ retVal <= filter.Greater
    \/ retVal >= filter.Less

\* faulty variant: the thresholds taken as inclusive bounds
RetFilterRejectsInclusive(filter, retVal) ==
    \/ (~IntIn(filter.Equal, retVal, 1) /\ Len(filter.Equal) > 0)
    \/ IntIn(filter.NotEqual, retVal, 1)
    \/ (filter.Greater # GreaterNotSetInt /\ retVal < filter.Greater)
    \/ (filter.Less # LessNotSetInt /\ retVal > filter.Less)

\* the return-value family on one filter: TRUE when it returns false
RetFilterRejects(filter, retVal) ==
    \/ (~IntIn(filter.Equal, retVal, 1) /\ Len(filter.Equal) > 0)
    \/ IntIn(filter.NotEqual, retVal, 1)
    \/ (filter.Greater # GreaterNotSetInt /\ retVal <= filter.Greater)
    \/ (filter.Less # LessNotSetInt /\ retVal >= filter.Less)

\* faulty variant: the wildcard marker is not cut off before the prefix test
PatternMatchKeepsMarker(argValStr, f) ==
    IF argValStr = f THEN "match"
    ELSE IF Len(f) = 0 THEN "panic"
    ELSE IF f[Len(f)] = "*" /\ HasPrefix(argValStr, f) THEN "match"
    ELSE "nomatch"

\* argValStr == f || (f[len(f)-1] == '*' && strings.HasPrefix(argValStr, f[0:len(f)-1]))
\* f[len(f)-1] on an empty f is an index out of range: the goroutine panics
PatternMatch(argValStr, f) ==
    IF argValStr = f THEN "match"
    ELSE IF Len(f) = 0 THEN "panic"
    ELSE IF f[Len(f)] = "*" /\ HasPrefix(argValStr, SubSeq(f, 1, Len(f) - 1)) THEN "match"
    ELSE "nomatch"

\* for _, f := range list: stops at the first match (or panic)
RECURSIVE AnyPattern(_, _, _)
AnyPattern(list, argValStr, i) ==
    IF i > Len(list) THEN "nomatch"
    ELSE LET m == PatternMatch(argValStr, list[i])
         IN IF m = "nomatch" THEN AnyPattern(list, argValStr, i + 1) ELSE m

\* the argument family on one argument: "pass", "reject" or "panic"
ArgFilterOne(filter, argVal) ==
    LET argValStr == Sprint(argVal)
        eq == AnyPattern(filter.Equal, argValStr, 1)
        ne == AnyPattern(filter.NotEqual, argValStr, 1)
    IN IF eq = "panic" THEN "panic"
       ELSE IF eq = "nomatch" /\ Len(filter.Equal) > 0 THEN "reject"
       ELSE IF ne = "panic" THEN "panic"
       ELSE IF ne = "match" THEN "reject"
       ELSE "pass"

\* for argName, filter := range filters: order is the order in which the map
\* iteration happens to visit the names
RECURSIVE ArgFilterLoop(_, _, _, _)
ArgFilterLoop(filters, a, order, i) ==
    IF i > Len(order) THEN "pass"
    ELSE IF order[i] \notin DOMAIN a THEN ArgFilterLoop(filters, a, order, i + 1)
    ELSE LET r == ArgFilterOne(filters[order[i]], a[order[i]])
         IN IF r = "pass" THEN ArgFilterLoop(filters, a, order, i + 1) ELSE r

\* the filters configured for an event type, none when the map has no entry
ArgFiltersOf(cfg, id) == IF id \in DOMAIN cfg.Arg.Filters THEN cfg.Arg.Filters[id] ELSE <<>>

\* shouldProcessEvent(ctx, args): "true", "false", or "panic"
shouldProcessEvent(cfg, c, a, order) ==
    IF /\ cfg.Ret.Enabled
       /\ c.EventID \in DOMAIN cfg.Ret.Filters
       /\ RetFilterRejects(cfg.Ret.Filters[c.EventID], c.Retval)
    THEN "false"
    ELSE IF ~cfg.Arg.Enabled THEN "true"
    ELSE LET r == ArgFilterLoop(ArgFiltersOf(cfg, c.EventID), a, order, 1)
         IN IF r = "pass" THEN "true" ELSE IF r = "reject" THEN "false" ELSE "panic"

\* the orders in which a map with these keys can be iterated
Orders(keys) == { o \in [1..Cardinality(keys) -> keys] :
                    \A i, j \in 1..Cardinality(keys) : i # j => o[i] # o[j] }

Evaluate(order) ==
    /\ fresult = "none"
    /\ fresult' = shouldProcessEvent(ffilter, fctx, fargs, order)
    /\ UNCHANGED <<fctx, fargs, ffilter>>
    /\ UNCHANGED <<dispVars, onceVars>>

\* ------------------------------------------------------------------------
\* The decoder delivering events
\* ------------------------------------------------------------------------
Ctx(id, pid, hostPid, mnt, ts, a) ==
    [EventID |-> id, Pid |-> pid, HostPid |-> hostPid, MntID |-> mnt, Ts |-> ts,
     Retval |-> 0, Argnum |-> Cardinality(DOMAIN a)]

Event(id, pid, hostPid, mnt, ts, a) ==
    [ctx |-> Ctx(id, pid, hostPid, mnt, ts, a), args |-> a, argMetas |-> MetasOf(DOMAIN a)]

WriteEvents == { Event(id, 1, 1, m, 1, a) :
                   id \in {VfsWriteEventID, VfsWritevEventID}, m \in MntIDs, a \in WriteArgs }
ExecEvents == { Event(SchedProcessExecEventID, p, h, 1, 1, a) :
                   p \in {1, 2}, h \in HostPids, a \in ExecArgsGood }
              \cup { Event(SchedProcessExecEventID, 2, 1, 1, 1, a) : a \in ExecArgsOdd }
OtherEvents == { Event(OtherEventID, 1, 1, 1, 1, a) :
                   a \in { <<>>, MkArgs({"pathname"}, [pathname |-> Str(<<"/", "a">>)]) } }
NoEvent == Event("none", 1, 1, 1, 1, <<>>)

\* the profile counter the event would bump is below its cap
BelowCap(e) ==
    (/\ e.ctx.EventID = SchedProcessExecEventID
     /\ HasTyped(e.args, "pathname", "string")
     /\ e.args["pathname"].v \in AbsPaths
     /\ HasTyped(e.args, "ctime", "int64"))
    => LET k == ProfileKey(e.ctx.MntID, e.args["pathname"].v, e.args["ctime"].v)
       IN k \in DOMAIN profiledFiles => profiledFiles[k].Times < MaxTimes

IsWrite(e) == e.ctx.EventID \in {VfsWriteEventID, VfsWritevEventID}
IsExec(e) == e.ctx.EventID = SchedProcessExecEventID

\* the arguments a write event needs, with an absolute path
GoodWriteArgs(a) ==
    /\ HasTyped(a, "pathname", "string") /\ a["pathname"].v \in AbsPaths
    /\ HasTyped(a, "dev", "uint32")
    /\ HasTyped(a, "inode", "uint64")

\* the arguments an exec event needs, with an absolute path
GoodExecArgs(a) ==
    /\ HasTyped(a, "pathname", "string") /\ a["pathname"].v \in AbsPaths
    /\ HasTyped(a, "ctime", "int64")

\* "same": e has the mount namespace and the arguments of the event p that
\* was processed just before and returned no error; "ctime": both are well
\* formed exec events of one namespace and pathname, with different ctimes;
\* "path": both are well formed write events of one (mount, dev, inode), with
\* different pathnames; "retry": e has the mount namespace and the arguments
\* of the exec event p that was processed just before and whose copy failed
Repeats(p, e, perr) ==
    IF perr \in CopyErrors /\ p.ctx.MntID = e.ctx.MntID /\ IsExec(p) /\ IsExec(e)
       /\ GoodExecArgs(e.args) /\ p.args = e.args
    THEN "retry"
    ELSE IF perr # NoErr \/ p.ctx.MntID # e.ctx.MntID THEN "no"
    ELSE IF (IsWrite(p) /\ IsWrite(e) /\ GoodWriteArgs(e.args) /\ p.args = e.args)
            \/ (IsExec(p) /\ IsExec(e) /\ GoodExecArgs(e.args) /\ p.args = e.args)
    THEN "same"
    ELSE IF IsExec(p) /\ IsExec(e) /\ GoodExecArgs(e.args) /\ GoodExecArgs(p.args)
            /\ p.args["pathname"] = e.args["pathname"]
    THEN "ctime"
    ELSE IF IsWrite(p) /\ IsWrite(e) /\ GoodWriteArgs(e.args) /\ GoodWriteArgs(p.args)
            /\ p.args["dev"] = e.args["dev"] /\ p.args["inode"] = e.args["inode"]
    THEN "path"
    ELSE "no"

Deliver(e) ==
    /\ pc = "idle"
    /\ BelowCap(e)
    /\ ctx' = e.ctx
    /\ args' = e.args
    /\ argMetas' = e.argMetas
    /\ again' = Repeats(ev, e, err)
    /\ ev' = e
    /\ pc' = "delivered"
    /\ err' = "pending"
    /\ io' = NoIO
    /\ UNCHANGED <<config, indexVars>>
    /\ UNCHANGED <<onceVars, filtVars>>

DeliverWrite == \E e \in WriteEvents : Deliver(e)
DeliverExec == \E e \in ExecEvents : Deliver(e)
DeliverOther == \E e \in OtherEvents : Deliver(e)

InitOnce ==
    /\ onceDone = FALSE
    /\ onceM = 0
    /\ cpc = [c \in 1..NCallers |-> "idle"]
    /\ cerr = [c \in 1..NCallers |-> "pending"]
    /\ tail = NoTail

InitFilter ==
    /\ fctx = NoEvent.ctx
    /\ fargs = <<>>
    /\ ffilter = <<>>
    /\ fresult = "none"

InitDisp ==
    /\ writtenFiles = <<>>
    /\ pidsInMntns = [m \in MntIDs |-> <<>>]
    /\ capturedFiles = <<>>
    /\ fileHashes = <<>>
    /\ profiledFiles = <<>>
    /\ ctx = NoEvent.ctx
    /\ args = NoEvent.args
    /\ argMetas = NoEvent.argMetas
    /\ pc = "idle"
    /\ err = NoErr
    /\ ev = NoEvent
    /\ again = "no"
    /\ io = NoIO

NoConfig == [FileWrite |-> FALSE, Exec |-> FALSE, ExecHash |-> FALSE, Profile |-> FALSE]

\* ------------------------------------------------------------------------
\* Spec: the dispatcher on exec events, exec-capture and hash-on-output
\* switched on or off
\* ------------------------------------------------------------------------
Init ==
    /\ config \in [FileWrite : {FALSE}, Exec : BOOLEAN, ExecHash : BOOLEAN, Profile : {FALSE}]
    /\ InitDisp
    /\ InitOnce
    /\ InitFilter

Next ==
    \/ DeliverExec
    \/ DeliverOther
    \/ \E env \in EnvsFor(config), evict \in EvictsFor(ctx, pidsInMntns) :
          ProcessExec(env, evict)
    \/ ProcessOther

Spec == Init /\ [][Next]_vars

\* ------------------------------------------------------------------------
\* SpecWrite: the dispatcher on write events, write-capture on or off
\* ------------------------------------------------------------------------
InitWrite ==
    /\ config \in [FileWrite : BOOLEAN, Exec : {FALSE}, ExecHash : {FALSE}, Profile : {FALSE}]
    /\ InitDisp
    /\ InitOnce
    /\ InitFilter

NextWrite ==
    \/ DeliverWrite
    \/ DeliverOther
    \/ ProcessWrite
    \/ ProcessOther

SpecWrite == InitWrite /\ [][NextWrite]_vars

\* ------------------------------------------------------------------------
\* SpecOnce: NCallers goroutines, each dispatching one socket event
\* ------------------------------------------------------------------------
InitOnceSpec ==
    /\ config = NoConfig
    /\ InitDisp
    /\ InitOnce
    /\ InitFilter

NextOnce ==
    \/ \E c \in 1..NCallers : CallSocket(c)
    \/ \E c \in 1..NCallers : OnceLoad(c)
    \/ \E c \in 1..NCallers : OnceLock(c)
    \/ \E c \in 1..NCallers : OnceCheck(c)
    \/ \E c \in 1..NCallers, ok \in BOOLEAN : GetMap(c, ok)
    \/ \E c \in 1..NCallers, ok \in BOOLEAN : GetValue(c, ok)
    \/ \E c \in 1..NCallers, ok \in BOOLEAN : DeleteKey(c, ok)
    \/ \E c \in 1..NCallers : HandleError(c)
    \/ \E c \in 1..NCallers : OnceStore(c)
    \/ \E c \in 1..NCallers : OnceUnlock(c)

SpecOnce == InitOnceSpec /\ [][NextOnce]_vars

\* ------------------------------------------------------------------------
\* SpecFilter: shouldProcessEvent applied to one event under one configuration
\* ------------------------------------------------------------------------
SeqsUpTo(S, n) == UNION { [1..k -> S] : k \in 0..n }

RetVals == {0 - 1, 0, 1, 2}
IntLists == SeqsUpTo({0, 1}, MaxIntList)
RetFilters == [Equal : IntLists, NotEqual : IntLists,
               Greater : {GreaterNotSetInt, 0 - 1, 0}, Less : {LessNotSetInt, 1, 2}]

Patterns == { <<>>, <<"*">>, <<"a">>, <<"a", "*">>, <<"1", "*">> }
ArgFilters == [Equal : SeqsUpTo(Patterns, MaxPatList), NotEqual : SeqsUpTo(Patterns, 1)]
ArgVals == { Str(<<>>), Str(<<"a">>), Str(<<"a", "b">>), Str(<<"a", "*">>), Str(<<"b">>),
             I64(12), I64(0 - 1) }

FilterID == VfsWriteEventID
OneFilter(f) == [e \in {FilterID} |-> f]

\* return-value filtering: every filter, switched on or off, or none for the event
RetConfigs == { [Enabled |-> en, Filters |-> OneFilter(f)] : en \in BOOLEAN, f \in RetFilters }
              \cup { [Enabled |-> TRUE, Filters |-> <<>>] }
RetConfigsFew == { [Enabled |-> FALSE, Filters |-> <<>>],
                   [Enabled |-> TRUE,
                    Filters |-> OneFilter([Equal |-> <<>>, NotEqual |-> <<1>>,
                                           Greater |-> GreaterNotSetInt,
                                           Less |-> LessNotSetInt])] }

\* argument filtering: every filter on the argument "pathname", alone or
\* beside a filter on "flags", switched on or off, or none for the event
FlagsFilters == { [Equal |-> <<<<"1">>>>, NotEqual |-> <<>>],
                  [Equal |-> <<>>, NotEqual |-> <<<<"*">>>>] }
ArgConfigs == { [Enabled |-> en, Filters |-> OneFilter([n \in {"pathname"} |-> f])] :
                   en \in BOOLEAN, f \in ArgFilters }
              \cup { [Enabled |-> TRUE,
                      Filters |-> OneFilter([n \in {"pathname", "flags"} |->
                                               IF n = "pathname" THEN f ELSE g])] :
                       f \in ArgFilters, g \in FlagsFilters }
              \cup { [Enabled |-> TRUE, Filters |-> <<>>] }
ArgConfigsFew == { [Enabled |-> FALSE, Filters |-> <<>>],
                   [Enabled |-> TRUE,
                    Filters |-> OneFilter([n \in {"pathname"} |->
                                             [Equal |-> <<>>, NotEqual |-> <<<<"b">>>>]])] }

FilterArgs == { MkArgs({"pathname", "flags"}, r) :
                  r \in [pathname : ArgVals \cup {Absent}, flags : {I64(1), Absent}] }
FilterArgsFew == { MkArgs({"pathname"}, [pathname |-> Str(p)]) : p \in {<<"a">>, <<"b">>} }

FilterCtx(retval) == [Ctx(FilterID, 1, 1, 1, 1, <<>>) EXCEPT !.Retval = retval]

InitFilterSpec ==
    /\ config = NoConfig
    /\ InitDisp
    /\ InitOnce
    /\ fresult = "none"
    /\ \/ /\ \E retval \in RetVals : fctx = FilterCtx(retval)
          /\ ffilter \in [Ret : RetConfigs, Arg : ArgConfigsFew]
          /\ fargs \in FilterArgsFew
       \/ /\ \E retval \in {0, 1} : fctx = FilterCtx(retval)
          /\ ffilter \in [Ret : RetConfigsFew, Arg : ArgConfigs]
          /\ fargs \in FilterArgs

NextFilter == \E order \in Orders(DOMAIN ArgFiltersOf(ffilter, fctx.EventID)) : Evaluate(order)

SpecFilter == InitFilterSpec /\ [][NextFilter]_vars

\* ------------------------------------------------------------------------
\* Claims
\* ------------------------------------------------------------------------
Callers == 1..NCallers

\* C1 (as stated): once a socket event has been dispatched, exactly one
\* deletion attempt (DeleteKey) has been made against sys_exit_tails.
C1_ExactlyOneDeleteKey ==
    (\E c \in Callers : cpc[c] = "done") => tail.deletes = 1

\* C1 (amended): however many callers dispatch socket events, and however
\* they interleave, removeSocketTail runs at most once and has run to its end
\* exactly once when any caller has returned; at most one DeleteKey is made,
\* and then exactly one iff GetMap and GetValue both succeeded.
C1_OnePrunerRun ==
    /\ tail.runs <= 1
    /\ tail.deletes <= 1
    /\ \A c \in Callers :
          cpc[c] = "done" =>
              /\ onceDone
              /\ tail.runs = 1
              /\ tail.deletes = 1 <=> (tail.getMap = "ok" /\ tail.getValue = "ok")

\* C1 witness: every caller has returned and the one deletion attempt was made
C1_Witness ==
    /\ \A c \in Callers : cpc[c] = "done"
    /\ tail.runs = 1
    /\ tail.deletes = 1


\* a processEvent step on the event in hand
Processing == pc = "delivered" /\ pc' = "idle"
\* processEvent has returned for the event ev
Processed == pc = "idle" /\ ev # NoEvent

\* the written-file entry of the event in hand, in the index wf
WriteKey == WriteFileName(ctx.MntID, args["dev"].v, args["inode"].v)
WriteIndexed(wf) == WriteKey \in DOMAIN wf /\ wf[WriteKey] = args["pathname"].v

\* C4: with write-capture enabled, a well-formed write event with an absolute
\* path returns no error and leaves its (mount, dev, inode) indexed under its
\* pathname, every other entry as it was; processed a second time, with
\* identical (mount, dev, inode, pathname), it returns no error again and
\* changes nothing: no index, not the event.
C4_WriteTwiceIndexesOnce ==
    [][ (Processing /\ IsWrite(ev) /\ config.FileWrite /\ GoodWriteArgs(args)) =>
          /\ err' = NoErr
          /\ WriteIndexed(writtenFiles')
          /\ \A k \in (DOMAIN writtenFiles \cup DOMAIN writtenFiles') \ {WriteKey} :
                k \in DOMAIN writtenFiles /\ k \in DOMAIN writtenFiles'
                /\ writtenFiles'[k] = writtenFiles[k]
          /\ UNCHANGED <<pidsInMntns, capturedFiles, fileHashes, profiledFiles,
                         ctx, args, argMetas>>
          /\ (again = "same" => WriteIndexed(writtenFiles) /\ UNCHANGED writtenFiles)
      ]_vars

\* C4 witness: the second of two identical write events has been processed
C4_Witness ==
    /\ Processed /\ IsWrite(ev) /\ config.FileWrite /\ GoodWriteArgs(args)
    /\ again = "same"
    /\ err = NoErr
    /\ WriteIndexed(writtenFiles)
    /\ Cardinality(DOMAIN writtenFiles) > 1


\* ---- the filter evaluator ----
Evaluated == fresult # "none"
InList(list, x) == \E i \in 1..Len(list) : list[i] = x

\* the return-value filter that applies to the event, if one does
RetApplies == ffilter.Ret.Enabled /\ fctx.EventID \in DOMAIN ffilter.Ret.Filters
FRet == ffilter.Ret.Filters[fctx.EventID]
BothBoundsSet == FRet.Greater # GreaterNotSetInt /\ FRet.Less # LessNotSetInt
NoBoundSet == FRet.Greater = GreaterNotSetInt /\ FRet.Less = LessNotSetInt

\* C5: under an enabled return-value filter of the event's type with both
\* bounds set, an event passes the filter iff lower < value < upper, the value
\* is not in the reject-list, and the accept-list is empty or contains it
\* (an event that passes it is passed on, unless argument filtering is on).
C5_BothBounds ==
    (Evaluated /\ RetApplies /\ BothBoundsSet) =>
        LET v == fctx.Retval
            passes == /\ FRet.Greater < v /\ v < FRet.Less
                      /\ ~InList(FRet.NotEqual, v)
                      /\ (FRet.Equal = <<>> \/ InList(FRet.Equal, v))
        IN /\ ~passes => fresult = "false"
           /\ (passes /\ ~ffilter.Arg.Enabled) => fresult = "true"

\* C5 witness: a value strictly between the bounds, in the accept-list, passed
C5_Witness ==
    /\ Evaluated /\ RetApplies /\ BothBoundsSet
    /\ FRet.Equal # <<>> /\ FRet.NotEqual # <<>>
    /\ ~ffilter.Arg.Enabled
    /\ fresult = "true"

\* C6 (as stated): under a return-value filter with an empty accept-list and
\* a non-empty reject-list, an event is dropped iff its return value is in the
\* reject-list.
C6_RejectListOnly ==
    (Evaluated /\ RetApplies /\ ~ffilter.Arg.Enabled
       /\ FRet.Equal = <<>> /\ FRet.NotEqual # <<>>) =>
        (fresult = "false" <=> InList(FRet.NotEqual, fctx.Retval))

\* C6 (amended): the same, for the filters that have neither bound set.
C6_RejectListOnlyNoBound ==
    (Evaluated /\ RetApplies /\ NoBoundSet
       /\ FRet.Equal = <<>> /\ FRet.NotEqual # <<>>) =>
        /\ InList(FRet.NotEqual, fctx.Retval) => fresult = "false"
        /\ (~InList(FRet.NotEqual, fctx.Retval) /\ ~ffilter.Arg.Enabled) => fresult = "true"

\* C6 witness: a value of the reject-list dropped, another one passed on
C6_Witness ==
    /\ Evaluated /\ RetApplies /\ NoBoundSet
    /\ FRet.Equal = <<>> /\ Len(FRet.NotEqual) = 2
    /\ InList(FRet.NotEqual, fctx.Retval)
    /\ fresult = "false"

\* a pattern ending in the marker matches the texts that start with the rest
\* of it; any other pattern matches the text equal to it
EndsInMarker(f) == Len(f) > 0 /\ f[Len(f)] = "*"
Matches(text, f) ==
    IF EndsInMarker(f)
    THEN \E k \in 0..Len(text) : SubSeq(text, 1, k) = SubSeq(f, 1, Len(f) - 1)
    ELSE text = f

\* one argument filter, on "pathname", is all that can drop the event
OnlyPathnameFilter ==
    /\ Evaluated /\ ~ffilter.Ret.Enabled /\ ffilter.Arg.Enabled
    /\ fctx.EventID \in DOMAIN ffilter.Arg.Filters
    /\ DOMAIN ffilter.Arg.Filters[fctx.EventID] = {"pathname"}
    /\ "pathname" \in DOMAIN fargs
FArg == ffilter.Arg.Filters[fctx.EventID]["pathname"]

\* C7: a single accept-list pattern lets the event pass exactly when it
\* matches the argument's textual form - by prefix when it ends in the marker,
\* by equality otherwise - and a single reject-list pattern drops the event
\* exactly when it matches, in the same sense.
C7_WildcardIsPrefix ==
    OnlyPathnameFilter =>
        LET text == Sprint(fargs["pathname"])
        IN /\ (Len(FArg.Equal) = 1 /\ FArg.NotEqual = <<>>) =>
                 (fresult = "true" <=> Matches(text, FArg.Equal[1]))
           /\ (FArg.Equal = <<>> /\ Len(FArg.NotEqual) = 1) =>
                 (fresult = "false" <=> Matches(text, FArg.NotEqual[1]))

\* C7 witness: the accept-list pattern "a*" lets the value "ab" pass
C7_Witness ==
    /\ OnlyPathnameFilter
    /\ FArg.Equal = << <<"a", "*">> >> /\ FArg.NotEqual = <<>>
    /\ fargs["pathname"] = Str(<<"a", "b">>)
    /\ fresult = "true"

\* what the two families are meant to decide
RetRejects ==
    /\ RetApplies
    /\ \/ (FRet.Equal # <<>> /\ ~InList(FRet.Equal, fctx.Retval))
       \/ InList(FRet.NotEqual, fctx.Retval)
       \/ (FRet.Greater # GreaterNotSetInt /\ ~(fctx.Retval > FRet.Greater))
       \/ (FRet.Less # LessNotSetInt /\ ~(fctx.Retval < FRet.Less))
ArgRejects ==
    /\ ffilter.Arg.Enabled
    /\ fctx.EventID \in DOMAIN ffilter.Arg.Filters
    /\ \E n \in DOMAIN ffilter.Arg.Filters[fctx.EventID] \cap DOMAIN fargs :
          LET f == ffilter.Arg.Filters[fctx.EventID][n]
              text == Sprint(fargs[n])
          IN \/ \E i \in 1..Len(f.NotEqual) : Matches(text, f.NotEqual[i])
             \/ (f.Equal # <<>> /\ ~\E i \in 1..Len(f.Equal) : Matches(text, f.Equal[i]))

\* C8: shouldProcessEvent returns true iff neither family rejects (a value of
\* a reject-list is rejected whatever the accept-list says; a configured
\* argument that the event does not carry rejects nothing).
C8_TrueIffNoFamilyRejects ==
    Evaluated => (fresult = "true" <=> (~RetRejects /\ ~ArgRejects))

\* the event in hand is a well-formed exec event with an absolute path
ExecInHand == IsExec(ev) /\ GoodExecArgs(ev.args)

\* C2: with exec-capture enabled, the second of two exec events of one mount
\* namespace with the same absolute pathname and an unchanged ctime copies
\* nothing (the file is copied once); when the ctime differs between the two
\* events, the second one makes a copy.
C2_CopiesOncePerCtime ==
    (Processed /\ ExecInHand /\ config.Exec /\ err = NoErr) =>
        /\ again = "same" => io.copy = "none"
        /\ again = "ctime" => io.copy = "ok"

\* the hash-cache key of the exec step being taken, and its entry before it
HashKey == CapturedFileID(ctx.MntID, SourceFilePath(io'.via, args["pathname"].v))
HashEntryAt(fh) == LruIndex(fh, HashKey, 1)
HashHit ==
    /\ HashEntryAt(fileHashes) # 0
    /\ fileHashes[HashEntryAt(fileHashes)].val.LastCtime = args["ctime"].v

\* C3: with hash-on-output enabled, an exec event that finds a hash-cache
\* entry for its (namespace, source) whose stored ctime equals its own gets
\* the stored hash injected unchanged, with no recomputation, and the entry
\* stays as it was; when the stored ctime differs, or there is no entry, the
\* hash is recomputed, the recomputed hash is the one injected, and the entry
\* becomes (the event's ctime, the new hash). Every entry of the cache after
\* the step is an entry that was there before or the one just computed, so
\* an entry's hash is always the one computed at its stored ctime.
C3_HashCacheTrustedWhileCtimeEqual ==
    [][ (Processing /\ ExecInHand /\ config.ExecHash /\ err' = NoErr) =>
          LET i == HashEntryAt(fileHashes)
              j == HashEntryAt(fileHashes')
          IN /\ j # 0
             /\ HashHit =>
                   /\ ~io'.hashed
                   /\ args'["sha256"] = Str(fileHashes[i].val.Hash)
                   /\ fileHashes'[j] = fileHashes[i]
             /\ ~HashHit =>
                   /\ io'.hashed
                   /\ args'["sha256"] = Str(io'.hash)
                   /\ fileHashes'[j].val = [LastCtime |-> args["ctime"].v, Hash |-> io'.hash]
             /\ \A n \in 1..Len(fileHashes') :
                   n # j => \E m \in 1..Len(fileHashes) : fileHashes[m] = fileHashes'[n]
      ]_vars

\* C3 witness: the second of two exec events with one ctime has been
\* processed and carries the hash stored by the first, not a recomputed one
C3_Witness ==
    /\ Processed /\ ExecInHand /\ config.ExecHash /\ err = NoErr
    /\ again = "same"
    /\ ~io.hashed
    /\ args["sha256"] = Str(<<"x">>)
    /\ \E n \in 1..Len(fileHashes) :
          fileHashes[n].val = [LastCtime |-> ev.args["ctime"].v, Hash |-> <<"x">>]

\* the three enrichments of the event in hand, against the event as delivered
Enriched ==
    /\ "sha256" \notin DOMAIN ev.args
    /\ DOMAIN args = DOMAIN ev.args \cup {"sha256"}
    /\ args["sha256"].t = "string"
    /\ \A n \in DOMAIN ev.args : args[n] = ev.args[n]
    /\ argMetas = Append(ev.argMetas, HashMeta)
    /\ ctx = [ev.ctx EXCEPT !.Argnum = @ + 1]
NotEnriched == args = ev.args /\ argMetas = ev.argMetas /\ ctx = ev.ctx

C10_LaterCandidateIsTried ==
    (Processed /\ ExecInHand /\ config.Exec /\ io.later) =>
        err # "stat: no such file or directory"

\* the event in hand is an exec event whose pathname is an absolute string
ExecAbsolute ==
    /\ IsExec(ev)
    /\ HasTyped(ev.args, "pathname", "string")
    /\ ev.args["pathname"].v \in AbsPaths
\* no process of the event's bucket can reach the source
NoneResolves == ~io.first /\ ~io.later

\* C11: for an exec event with exec-capture or hash-on-output enabled and an
\* absolute pathname, when no process of the namespace's bucket can resolve
\* the path, processEvent returns an error, copies nothing and injects no
\* hash.
C11_UnresolvedIsAnError ==
    (Processed /\ ExecAbsolute /\ (config.Exec \/ config.ExecHash) /\ NoneResolves) =>
        /\ err # NoErr
        /\ io.copy # "ok"
        /\ NotEnriched

\* getFileHash was called for the event in hand and could not hash the file
HashFailed == io.hashed /\ io.hash = <<>>

\* C12: a failed file copy and a failed hash computation of an exec event are
\* returned by processEvent as an error; a failed hash computation is not
\* injected into the event and not stored in the hash cache.
C12_IOFailureIsReturned ==
    (Processed /\ ExecInHand) =>
        /\ io.copy = "fail" => err # NoErr
        /\ HashFailed =>
              /\ err # NoErr
              /\ NotEnriched
              /\ \A n \in 1..Len(fileHashes) : fileHashes[n].val.Hash # <<>>

\* ------------------------------------------------------------------------
\* SpecParse: the dispatcher on write and exec events of one mount
\* namespace, well formed and malformed, and on events of another type,
\* every capture toggle on or off
\* ------------------------------------------------------------------------
ParseWriteArgs ==
    { a \in WriteArgs : GoodWriteArgs(a) => a["pathname"].v = <<"/", "a">> /\ a["inode"].v = 1 }
ParseExecArgs == ExecArgsOdd \cup { a \in ExecArgsGood : a["ctime"].v = 1 }
ParseEvents ==
    { Event(VfsWriteEventID, 1, 1, 1, 1, a) : a \in ParseWriteArgs }
    \cup { Event(SchedProcessExecEventID, p, h, 1, 1, a) :
             p \in {1, 2}, h \in HostPids, a \in ParseExecArgs }

DeliverParse == \E e \in ParseEvents : Deliver(e)

InitParse ==
    /\ config \in [FileWrite : BOOLEAN, Exec : BOOLEAN, ExecHash : BOOLEAN, Profile : {FALSE}]
    /\ InitDisp
    /\ InitOnce
    /\ InitFilter

\* the outside world of SpecParse: the file system fails in CopyFileByPath
\* or not at all
ParseEnvs(cfg) == { e \in EnvsFor(cfg) : e.fault \in {"none", "create"} }

NextParse ==
    \/ DeliverParse
    \/ DeliverOther
    \/ ProcessWrite
    \/ ProcessOther
    \/ \E env \in ParseEnvs(config), evict \in EvictsFor(ctx, pidsInMntns) :
          ProcessExec(env, evict)

SpecParse == InitParse /\ [][NextParse]_vars

\* the arguments a handler requires, all present with their types
WriteTyped(a) ==
    HasTyped(a, "pathname", "string") /\ HasTyped(a, "dev", "uint32")
    /\ HasTyped(a, "inode", "uint64")
ExecTyped(a) == HasTyped(a, "pathname", "string") /\ HasTyped(a, "ctime", "int64")
\* the pathname is a string that is empty or not absolute
NotAbsolute(a) == HasTyped(a, "pathname", "string") /\ a["pathname"].v \in RelPaths
Absolute(a) == HasTyped(a, "pathname", "string") /\ a["pathname"].v \in AbsPaths
ParseErrors == {"error parsing vfs_write args", "error parsing sched_process_exec args",
                "error parsing sched_process_exec args: ctime"}
\* the handler of the event in hand parses arguments
WriteParsed == IsWrite(ev) /\ config.FileWrite
ExecParsed == IsExec(ev) /\ (config.Exec \/ config.ExecHash)

\* C13 (as stated): whenever a required argument is absent or mistyped,
\* processEvent returns a parse error, whatever the pathname's form.
C13_MalformedIsParseError ==
    Processed =>
        /\ (WriteParsed /\ ~WriteTyped(ev.args)) => err \in ParseErrors
        /\ (ExecParsed /\ ~ExecTyped(ev.args)) => err \in ParseErrors

\* C13 (amended): a pathname that is absent or not a string gives the
\* handler's parse error; with an absolute pathname, an absent or mistyped
\* dev or inode (write) or ctime (exec) gives a parse error; with a pathname
\* that is empty or not absolute, processEvent returns no error, whatever the
\* other arguments are.
C13_ParseErrorUnlessIgnoredPath ==
    Processed =>
        /\ (WriteParsed /\ ~HasTyped(ev.args, "pathname", "string"))
              => err = "error parsing vfs_write args"
        /\ (WriteParsed /\ Absolute(ev.args) /\ ~WriteTyped(ev.args))
              => err = "error parsing vfs_write args"
        /\ (ExecParsed /\ ~HasTyped(ev.args, "pathname", "string"))
              => err = "error parsing sched_process_exec args"
        /\ (ExecParsed /\ Absolute(ev.args) /\ ~ExecTyped(ev.args))
              => err = "error parsing sched_process_exec args: ctime"
        /\ ((WriteParsed \/ ExecParsed) /\ NotAbsolute(ev.args)) => err = NoErr

\* C13 witness: a write event whose pathname is not absolute and whose dev is
\* absent has been processed with write-capture on, and returned no error
C13_Witness ==
    /\ Processed /\ WriteParsed
    /\ NotAbsolute(ev.args) /\ "dev" \notin DOMAIN ev.args
    /\ err = NoErr
    /\ writtenFiles # <<>>

\* the pruner has met an error
TailFailed == tail.getMap = "fail" \/ tail.getValue = "fail" \/ tail.deleteKey = "fail"

\* C14: once a caller has returned from a socket event, any error the pruner
\* met (GetMap, GetValue or DeleteKey failing) has been handed to the error
\* handler, and every caller that has returned got no error.
C14_TailErrorsAreHandled ==
    (\E c \in Callers : cpc[c] = "done") =>
        /\ TailFailed => tail.handled = 1
        /\ \A c \in Callers : cpc[c] = "done" => cerr[c] = NoErr

\* the event in hand is one processEvent has nothing to do for
NothingToDo ==
    \/ ~IsWrite(ev) /\ ~IsExec(ev)
    \/ IsWrite(ev) /\ ~config.FileWrite
    \/ (IsWrite(ev) \/ IsExec(ev)) /\ NotAbsolute(ev.args)

\* C15: processEvent on an event of a type other than write, exec or socket
\* creation, on a write event with write-capture disabled, and on a write or
\* exec event whose pathname is empty or not absolute, returns no error and
\* leaves the written-file index, the captured-file index, the hash cache,
\* the profile records, args, argMetas and the argument count unchanged; the
\* pid index is unchanged too, unless the event is an exec event.
C15_NothingToDoChangesNothing ==
    [][ (Processing /\ NothingToDo) =>
          /\ err' = NoErr
          /\ UNCHANGED <<writtenFiles, capturedFiles, fileHashes, profiledFiles,
                         ctx, args, argMetas>>
          /\ (~IsExec(ev) => UNCHANGED pidsInMntns)
      ]_vars

\* C15 witness: an exec event with a pathname that is not absolute has been
\* processed with both exec toggles on and indexes that are not empty
C15_Witness ==
    /\ Processed /\ IsExec(ev) /\ NotAbsolute(ev.args)
    /\ config.Exec /\ config.ExecHash
    /\ err = NoErr
    /\ NotEnriched
    /\ capturedFiles # <<>> /\ fileHashes # <<>>

\* the (mount, dev, inode) triples of the model and the ones an entry stands for
Triples == MntIDs \X Devs \X Inodes
TriplesOf(k) == { t \in Triples : WriteFileName(t[1], t[2], t[3]) = k }

\* C16: the entry a write event writes stands for its (mount, dev, inode)
\* triple and no other, so a triple has at most one entry; a
\* well-formed absolute-path write event processed with write-capture enabled
\* leaves its triple's entry equal to its pathname, overwriting a different
\* pathname, and all other entries as they were; no other step changes the
\* index. So an entry always holds the pathname of the most recent such event
\* of its triple.
C16_LastWriteWins ==
    [][ IF Processing /\ IsWrite(ev) /\ config.FileWrite /\ GoodWriteArgs(args)
        THEN /\ TriplesOf(WriteKey) = {<<ctx.MntID, args["dev"].v, args["inode"].v>>}
             /\ DOMAIN writtenFiles' = DOMAIN writtenFiles \cup {WriteKey}
             /\ writtenFiles'[WriteKey] = args["pathname"].v
             /\ \A k \in DOMAIN writtenFiles \ {WriteKey} :
                   writtenFiles'[k] = writtenFiles[k]
             /\ (again = "path" => writtenFiles[WriteKey] # writtenFiles'[WriteKey])
        ELSE UNCHANGED writtenFiles
      ]_vars

\* C16 witness: a write event has overwritten the entry that the event before
\* it left for the same triple under another pathname
C16_Witness ==
    /\ Processed /\ IsWrite(ev) /\ config.FileWrite /\ GoodWriteArgs(args)
    /\ again = "path"
    /\ writtenFiles[WriteKey] = <<"/", "d", "/", "a">>
    /\ Cardinality(DOMAIN writtenFiles) > 1

\* the captured-file key of the exec step being taken
CaptureKey == CapturedFileID(ctx.MntID, SourceFilePath(io'.via, args["pathname"].v))
\* the exec step being taken tries its bucket's first pid, as the one before
SameCandidate ==
    /\ pidsInMntns[ctx.MntID] # <<>>
    /\ pidsInMntns'[ctx.MntID][1] = pidsInMntns[ctx.MntID][1]

\* C17: when the file copy of an exec event fails, processEvent returns the
\* copy error, the captured-file index is left as it was, with no record of
\* the event's ctime under the event's key, and no hash is computed, cached
\* or injected. The next exec event with the same key and ctime gets past
\* the captured-file test again: it attempts the copy (unless creating the
\* destination directory fails first).
C17_FailedCopyLeavesNoRecord ==
    [][ (Processing /\ ExecInHand /\ config.Exec) =>
          /\ io'.copy = "fail" =>
                /\ err' \in CopyErrors
                /\ UNCHANGED <<capturedFiles, fileHashes, args, argMetas, ctx>>
                /\ ~io'.hashed
                /\ (CaptureKey \in DOMAIN capturedFiles'
                       => capturedFiles'[CaptureKey] # args["ctime"].v)
          /\ (again = "retry" /\ SameCandidate) =>
                (io'.copy \in {"ok", "fail"} \/ err' = "mkdir failed")
      ]_vars

\* C17 witness: the exec event after a failed copy, with the same arguments,
\* has copied the file
C17_Witness ==
    /\ Processed /\ ExecInHand /\ config.Exec
    /\ again = "retry"
    /\ io.copy = "ok"
    /\ err = NoErr

\* ------------------------------------------------------------------------
\* SpecProfile: the dispatcher on exec events at two timestamps, exec-capture
\* and profiling on, a profile counter capped at MaxTimes
\* ------------------------------------------------------------------------
TsValues == {1, 2}
ProfileExecArgs ==
    { MkArgs({"pathname", "ctime"}, r) :
        r \in [pathname : {Str(p) : p \in AbsPaths}, ctime : {I64(c) : c \in Ctimes}] }
    \cup { MkArgs({"pathname", "ctime"}, r) :
             r \in [pathname : {Str(<<"m">>), Str(<<"/", "a">>)}, ctime : {I64(1), Absent}] }
ProfileEvents ==
    { Event(SchedProcessExecEventID, 2, 1, 1, ts, a) : ts \in TsValues, a \in ProfileExecArgs }

DeliverProfile == \E e \in ProfileEvents : Deliver(e)

InitProfile ==
    /\ config \in [FileWrite : {FALSE}, Exec : {TRUE}, ExecHash : {FALSE}, Profile : {TRUE}]
    /\ InitDisp
    /\ InitOnce
    /\ InitFilter

NextProfile ==
    \/ DeliverProfile
    \/ \E env \in EnvsFor(config), evict \in EvictsFor(ctx, pidsInMntns) :
          ProcessExec(env, evict)

SpecProfile == InitProfile /\ [][NextProfile]_vars

\* the profile key of the exec event in hand, and what counting the event
\* once does to the profile records
EventProfileKey == ProfileKey(ctx.MntID, args["pathname"].v, args["ctime"].v)
CountedOnce ==
    LET k == EventProfileKey
    IN /\ DOMAIN profiledFiles' = DOMAIN profiledFiles \cup {k}
       /\ \A x \in DOMAIN profiledFiles \ {k} : profiledFiles'[x] = profiledFiles[x]
       /\ IF k \in DOMAIN profiledFiles
          THEN /\ profiledFiles'[k].Times = profiledFiles[k].Times + 1
               /\ profiledFiles'[k].FirstExecutionTs = profiledFiles[k].FirstExecutionTs
          ELSE /\ profiledFiles'[k].Times = 1
               /\ profiledFiles'[k].FirstExecutionTs = ctx.Ts
ProfiledExec == Processing /\ ExecInHand /\ config.Exec /\ config.Profile

\* C18 (as stated): every exec event processed with exec-capture and
\* profiling enabled is counted once in the record of its (destination path,
\* ctime) key: the record is created with count 1 and the event's timestamp,
\* or its count goes up by one and its first timestamp stays.
C18_EveryExecIsCounted ==
    [][ ProfiledExec => CountedOnce ]_vars

\* C18 (amended): every well-formed absolute-path exec event processed with
\* exec-capture and profiling enabled whose destination directory could be
\* created is counted once in the record of its key, whether the file is then
\* copied, skipped or the copy fails; no other step changes a profile record,
\* so a record's first timestamp never changes and no record is removed.
C18_CountedOnceDirExists ==
    [][ IF ProfiledExec /\ err' # "mkdir failed"
        THEN CountedOnce
        ELSE UNCHANGED profiledFiles
      ]_vars

\* C18 witness: an event at timestamp 2 whose copy failed is the second one
\* counted in a record that keeps the first event's timestamp 1
C18_Witness ==
    /\ Processed /\ ExecInHand /\ config.Exec /\ config.Profile
    /\ ev.ctx.Ts = 2
    /\ io.copy = "fail"
    /\ LET k == ProfileKey(ev.ctx.MntID, ev.args["pathname"].v, ev.args["ctime"].v)
       IN /\ k \in DOMAIN profiledFiles
          /\ profiledFiles[k] = [Times |-> 2, FirstExecutionTs |-> 1]

\* the bucket of the event in hand before and after the step, and the
\* positions at which the two differ
BucketBefore == pidsInMntns[ctx.MntID]
BucketAfter == pidsInMntns'[ctx.MntID]
Replaced == { i \in 1..Len(BucketBefore) : BucketAfter[i] # BucketBefore[i] }

\* C19: every exec event puts its host pid into the bucket of its mount
\* namespace, whatever the toggles, the arguments and the error returned: a
\* bucket with room gets the pid appended; a full bucket is left alone by an
\* event of a process other than the namespace's pid 1, and holds the host pid
\* of an event of pid 1 afterwards, in the place of at most one of its
\* items. The buckets of other namespaces are not touched, and no step on an
\* event of another type changes the pid index.
C19_ExecUpdatesPidIndex ==
    [][ IF Processing /\ IsExec(ev)
        THEN /\ \A m \in MntIDs \ {ctx.MntID} : pidsInMntns'[m] = pidsInMntns[m]
             /\ IF Len(BucketBefore) < BucketLimit
                THEN BucketAfter = Append(BucketBefore, ctx.HostPid)
                ELSE IF ctx.Pid = 1
                THEN /\ Len(BucketAfter) = Len(BucketBefore)
                     /\ \E i \in 1..Len(BucketAfter) : BucketAfter[i] = ctx.HostPid
                     /\ Cardinality(Replaced) <= 1
                ELSE BucketAfter = BucketBefore
        ELSE UNCHANGED pidsInMntns
      ]_vars

\* C19 witness: a malformed exec event of the namespace's pid 1 has returned
\* a parse error with both exec toggles on, and its host pid sits in the full
\* bucket all the same
C19_Witness ==
    /\ Processed /\ IsExec(ev) /\ ev.ctx.Pid = 1 /\ ev.ctx.HostPid = 2
    /\ err \in ParseErrors
    /\ Len(pidsInMntns[ev.ctx.MntID]) = BucketLimit
    /\ \E i \in 1..BucketLimit : pidsInMntns[ev.ctx.MntID][i] = 2
    /\ \E i \in 1..BucketLimit : pidsInMntns[ev.ctx.MntID][i] = 1

\* C20: every evaluation of shouldProcessEvent ends with a decision, pass or
\* drop; an empty pattern in an accept-list or reject-list does not make it
\* fail.
C20_AlwaysADecision ==
    Evaluated => fresult \in {"true", "false"}

====
